---- MODULE Spec2Model ----
(***************************************************************************)
(* Model of etl.py: the Sparkify star-schema pipeline.                     *)
(*                                                                         *)
(* main() runs process_song_data and then process_log_data against an      *)
(* input namespace (JSON record files) and an output namespace (parquet    *)
(* table directories).  Dataframes are sequences of rows (records); the    *)
(* dataframe primitives (select, where, dropDuplicates, join) are          *)
(* operators on such sequences.  Row order is the order in which the       *)
(* model happens to produce rows; every property below is stated without   *)
(* reference to it.                                                        *)
(*                                                                         *)
(* Values: strings stand for string and float columns (a float is named    *)
(* by its literal, "180.0"), NULL is the SQL null of those columns.  A ts  *)
(* (epoch milliseconds, a 64-bit long) is the pair <<sec, ms>> standing    *)
(* for sec * 1000 + ms, and <<>> is the null ts.                           *)
(***************************************************************************)
EXTENDS Integers, Sequences, FiniteSets, Bags, TLC

VARIABLES
    catalog,    \* indexes of SongFilePool present under the input root
    events,     \* indexes of LogFilePool present under the input root
    storage,    \* output namespace: table name -> [exists, rows]
    pc,         \* position of the driver
    run,        \* number of the current pipeline run
    cat_df,     \* df of process_song_data
    log_df,     \* df of process_log_data
    df1,        \* song.parquet as read back
    df2,        \* artist.parquet as read back
    trace,      \* steps taken in the current run, each [op, ok]
    failure,    \* why the current run aborted ("none" when it has not)
    outcomes    \* final pc of each earlier run

vars == <<catalog, events, storage, pc, run, cat_df, log_df, df1, df2,
          trace, failure, outcomes>>

\* ------------------------------------------------------------------ bounds

MaxSongFiles == 2
MaxLogFiles == 2
MaxRuns == 2

\* ------------------------------------------------------------------ values

NULL == "NULL"
NullTs == <<>>

IsNull(v) == v = NULL

\* SQL equality: a comparison with null is never true.
SqlEq(a, b) == a # NULL /\ b # NULL /\ a = b

\* ------------------------------------------------------------------ sequences

Range(s) == {s[i] : i \in DOMAIN s}

RECURSIVE Flatten(_)
Flatten(ss) == IF ss = <<>> THEN <<>> ELSE Head(ss) \o Flatten(Tail(ss))

RECURSIVE SetToSeq(_)
\* the elements of a finite set of integers in increasing order
SetToSeq(S) ==
    IF S = {} THEN <<>>
    ELSE LET m == CHOOSE x \in S : \A y \in S : x <= y
         IN <<m>> \o SetToSeq(S \ {m})

\* ------------------------------------------------------------------ input namespace

\* A catalog record with the fields of create_song_schema that the pipeline
\* uses (num_songs is declared and never selected).
CatRec(sid, title, aid, year, dur, aname, aloc) ==
    [song_id |-> sid, title |-> title, artist_id |-> aid, year |-> year,
     duration |-> dur, artist_name |-> aname, artist_location |-> aloc,
     artist_latitude |-> NULL, artist_longitude |-> NULL]

\* An event record with the fields of create_log_schema that the pipeline
\* uses (auth, itemInSession, method, registration, status are declared and
\* never selected).
EvtRec(page, song, artist, length, uid, level, ts, sess) ==
    [page |-> page, song |-> song, artist |-> artist, length |-> length,
     userId |-> uid, firstName |-> "F", lastName |-> "L", gender |-> "G",
     level |-> level, ts |-> ts, sessionId |-> sess, location |-> "X",
     userAgent |-> "UA"]

\* Names that the glob component "*.json" matches.
JsonNames == {"a.json", "b.json"}

\* The record files that may lie under <input>/song-data.  A path is the
\* sequence of its components below the input root.
SongFilePool == <<
    [path |-> <<"song-data", "A", "B", "C", "a.json">>,
     rows |-> <<CatRec("S1", "T1", "A1", 2000, "180.0", "AR1", "")>>],
    [path |-> <<"song-data", "A", "B", "C", "b.json">>,
     rows |-> <<CatRec("S1", "T1", "A1", 2000, "180.0", "AR1", ""),
                CatRec(NULL, "T2", "A2", 1999, "200.5", "AR2", "M"),
                CatRec("S3", "T3", NULL, 1999, "210.0", "AR3", NULL)>>],
    [path |-> <<"song-data", "A", "A", "A", "a.json">>,
     rows |-> <<CatRec("S2", "T1", "A1", 2000, "180.0", "AR1", "L")>>],
    [path |-> <<"song-data", "A", "A", "B", "a.json">>,
     rows |-> <<CatRec("S8", "T8", "A2", 1998, "200.5", "AR2", "M")>>],
    [path |-> <<"song-data", "A", "B", "a.json">>,
     rows |-> <<CatRec("S4", "T4", "A4", 2001, "100.0", "AR4", "N")>>],
    [path |-> <<"song-data", "A", "B", "C", "D", "a.json">>,
     rows |-> <<CatRec("S5", "T5", "A5", 2002, "101.0", "AR5", "N")>>],
    [path |-> <<"song-data", "B", "A", "A", "a.json">>,
     rows |-> <<CatRec("S6", "T6", "A6", 2003, "102.0", "AR6", "N")>>],
    [path |-> <<"song-data", "A", "B", "C", "notes.txt">>,
     rows |-> <<CatRec("S7", "T7", "A7", 2004, "103.0", "AR7", "N")>>]
>>

\* The record files that may lie under <input>/log_data.
LogFilePool == <<
    [path |-> <<"log_data", "2018", "11", "a.json">>,
     rows |-> <<EvtRec("NextSong", "T1", "AR1", "180.0", "U1", "free",
                       <<1000, 0>>, 5)>>],
    [path |-> <<"log_data", "2018", "11", "b.json">>,
     rows |-> <<EvtRec("NextSong", "T1", "AR1", "180.0", "U1", "free",
                       <<1000, 0>>, 5),
                EvtRec("Home", NULL, NULL, NULL, "U2", "free",
                       <<1541903636, 796>>, 6)>>],
    [path |-> <<"log_data", "2018", "12", "a.json">>,
     rows |-> <<EvtRec("NextSong", "T9", "AR1", "180.0", "U1", "paid",
                       <<1541121934, 796>>, 7),
                EvtRec("NextSong", NULL, NULL, NULL, NULL, "free",
                       <<1546300799, 999>>, 8)>>],
    [path |-> <<"log_data", "2019", "01", "a.json">>,
     rows |-> <<EvtRec(NULL, "T1", "AR1", "180.0", "U3", "free",
                       <<1546300800, 0>>, 9)>>],
    [path |-> <<"log_data", "2019", "01", "b.json">>,
     rows |-> <<EvtRec("NextSong", "T1", "AR1", "180.0", "U4", "free",
                       NullTs, 10)>>],
    [path |-> <<"log_data", "2018", "a.json">>,
     rows |-> <<EvtRec("NextSong", "T1", "AR1", "180.0", "U5", "free",
                       <<1541121935, 0>>, 11)>>],
    [path |-> <<"log_data", "2018", "11", "02", "a.json">>,
     rows |-> <<EvtRec("NextSong", "T1", "AR1", "180.0", "U6", "free",
                       <<1541121936, 0>>, 12)>>]
>>

\* One component of a glob pattern against one component of a path.
MatchComponent(pat, c) ==
    \/ pat = "*"
    \/ pat = "*.json" /\ c \in JsonNames
    \/ pat = c

\* A glob matches a path when they have as many components and each
\* component matches: "*" never crosses a directory separator.
GlobMatch(glob, path) ==
    /\ Len(glob) = Len(path)
    /\ \A i \in DOMAIN glob : MatchComponent(glob[i], path[i])

\* A glob that is not held to the A directory.
song_data_any_prefix == <<"song-data", "*", "*", "*", "*.json">>

\* os.path.join(input_data, "song-data/A/*/*/*.json")
song_data == <<"song-data", "A", "*", "*", "*.json">>

\* os.path.join(input_data, "log_data/*/*/*.json")
log_data == <<"log_data", "*", "*", "*.json">>

\* The files of `present` (indexes into `pool`) that the glob matches.
Matching(pool, present, glob) ==
    {i \in present : GlobMatch(glob, pool[i].path)}

\* spark.read.json(glob, schema): the rows of the matching files.
ReadJson(pool, present, glob) ==
    LET ids == SetToSeq(Matching(pool, present, glob))
    IN Flatten([k \in DOMAIN ids |-> pool[ids[k]].rows])

\* ------------------------------------------------------------------ dataframe primitives

RECURSIVE dropDuplicates(_)
\* DataFrame.dropDuplicates(): one row of every class of fully equal rows
\* (nulls compare equal here, unlike in a join predicate).
dropDuplicates(s) ==
    IF s = <<>> THEN <<>>
    ELSE LET rest == dropDuplicates(SelectSeq(Tail(s), LAMBDA r : r # Head(s)))
         IN <<Head(s)>> \o rest

\* df.select([...]) of process_song_data, line 95
SongCols(r) ==
    [song_id |-> r.song_id, title |-> r.title, artist_id |-> r.artist_id,
     year |-> r.year, duration |-> r.duration]

\* df.select([...]) of process_song_data, lines 103-104
ArtistCols(r) ==
    [artist_id |-> r.artist_id, artist_name |-> r.artist_name,
     artist_location |-> r.artist_location,
     artist_latitude |-> r.artist_latitude,
     artist_longitude |-> r.artist_longitude]

\* df.select([...]) of process_log_data, line 129
UserCols(e) ==
    [userId |-> e.userId, firstName |-> e.firstName, lastName |-> e.lastName,
     gender |-> e.gender, level |-> e.level]

\* The projection alone, with no where and no dropDuplicates.
songs_table_keep_all(df) == [i \in DOMAIN df |-> SongCols(df[i])]

\* select(...).where("song_id is not null").dropDuplicates()
songs_table(df) ==
    dropDuplicates(SelectSeq([i \in DOMAIN df |-> SongCols(df[i])],
                             LAMBDA r : ~IsNull(r.song_id)))

\* select(...).where("artist_id is not null").dropDuplicates()
artists_table(df) ==
    dropDuplicates(SelectSeq([i \in DOMAIN df |-> ArtistCols(df[i])],
                             LAMBDA r : ~IsNull(r.artist_id)))

\* No filter on page.
NoFilter(df) == df

\* df.filter(df.page == "NextSong"): a null page does not compare equal
NextSongFilter(df) == SelectSeq(df, LAMBDA e : SqlEq(e.page, "NextSong"))

\* select(...).where("userId is not null").dropDuplicates()
users_table(df) ==
    dropDuplicates(SelectSeq([i \in DOMAIN df |-> UserCols(df[i])],
                             LAMBDA r : ~IsNull(r.userId)))

\* ------------------------------------------------------------------ time enrichment

\* Proleptic Gregorian date <<year, month, day>> of a day number counted
\* from 1970-01-01.
CivilFromDays(days) ==
    LET z   == days + 719468
        era == z \div 146097
        doe == z - era * 146097
        yoe == (doe - doe \div 1460 + doe \div 36524 - doe \div 146096) \div 365
        doy == doe - (365 * yoe + yoe \div 4 - yoe \div 100)
        mp  == (5 * doy + 2) \div 153
        d   == doy - (153 * mp + 2) \div 5 + 1
        m   == IF mp < 10 THEN mp + 3 ELSE mp - 9
        y   == yoe + era * 400 + (IF m <= 2 THEN 1 ELSE 0)
    IN <<y, m, d>>

\* Day number of a date, the inverse of CivilFromDays.
DaysFromCivil(y0, m, d) ==
    LET y   == IF m <= 2 THEN y0 - 1 ELSE y0
        era == y \div 400
        yoe == y - era * 400
        mp  == IF m > 2 THEN m - 3 ELSE m + 9
        doy == (153 * mp + 2) \div 5 + d - 1
        doe == yoe * 365 + yoe \div 4 - yoe \div 100 + doy
    IN era * 146097 + doe - 719468

\* ISO weekday of a day number, Monday = 1 ... Sunday = 7.
IsoWeekday(days) == ((days + 3) % 7) + 1

\* Number of ISO weeks of a year: 53 when 1 January is a Thursday, or a
\* Wednesday in a leap year.
IsoWeeksIn(y) ==
    LET jan1 == IsoWeekday(DaysFromCivil(y, 1, 1))
        leap == (y % 4 = 0 /\ y % 100 # 0) \/ y % 400 = 0
    IN IF jan1 = 4 \/ (jan1 = 3 /\ leap) THEN 53 ELSE 52

\* weekofyear(): the ISO 8601 week number
weekofyear(days) ==
    LET y    == CivilFromDays(days)[1]
        ord  == days - DaysFromCivil(y, 1, 1) + 1
        w    == (ord - IsoWeekday(days) + 10) \div 7
    IN IF w < 1 THEN IsoWeeksIn(y - 1)
       ELSE IF w > IsoWeeksIn(y) THEN 1 ELSE w

\* dayofweek(): Sunday = 1 ... Saturday = 7
dayofweek(days) == ((days + 4) % 7) + 1

\* get_timestamp(ts): the instant ts / 1000.0 seconds after the epoch, here
\* its whole seconds (the calendar fields do not depend on the fraction).
\* The calendar is that of the session time zone, taken to be UTC.
get_timestamp(ts) == ts[1]

\* The withColumn calls of lines 137-148 on one row.
Enrich(e) ==
    LET start_time == get_timestamp(e.ts)
        days == start_time \div 86400
        ymd  == CivilFromDays(days)
    IN e @@ [start_time |-> start_time,
             hour    |-> (start_time % 86400) \div 3600,
             day     |-> ymd[3],
             week    |-> weekofyear(days),
             month   |-> ymd[2],
             year    |-> ymd[1],
             weekday |-> dayofweek(days)]

\* df.select(["ts", "hour", "day", "week", "month", "year", "weekday"])
TimeCols(e) ==
    [ts |-> e.ts, hour |-> e.hour, day |-> e.day, week |-> e.week,
     month |-> e.month, year |-> e.year, weekday |-> e.weekday]

\* The projection followed by dropDuplicates.
time_table_distinct(df) == dropDuplicates([i \in DOMAIN df |-> TimeCols(df[i])])

time_table(df) == [i \in DOMAIN df |-> TimeCols(df[i])]

\* ------------------------------------------------------------------ fact builder

\* df1.join(df2, df1["artist_id"] == df2["artist_id"]).select(...): the rows of
\* the inner join of one song row with the artist rows.
ContextOf(s, artists) ==
    LET hits == SelectSeq(artists, LAMBDA a : SqlEq(s.artist_id, a.artist_id))
    IN [k \in DOMAIN hits |->
            [artist_id |-> s.artist_id, song_id |-> s.song_id,
             duration |-> s.duration, artist_name |-> hits[k].artist_name,
             title |-> s.title]]

\* song_df of process_log_data, lines 162-164
song_df(songs, artists) ==
    Flatten([i \in DOMAIN songs |-> ContextOf(songs[i], artists)])

\* A join condition with title and artist_name exchanged.
JoinOnSongAsArtist(e, c) ==
    /\ SqlEq(e.song, c.artist_name)
    /\ SqlEq(e.artist, c.title)
    /\ SqlEq(e.length, c.duration)

\* (df.song == song_df.title) & (df.artist == song_df.artist_name) &
\* (df.length == song_df.duration)
JoinCondition(e, c) ==
    /\ SqlEq(e.song, c.title)
    /\ SqlEq(e.artist, c.artist_name)
    /\ SqlEq(e.length, c.duration)

\* The select of line 169 on one joined row; sid and aid come from the
\* right side and are null when the left row found no match.
SongplayCols(e, sid, aid) ==
    [ts |-> e.ts, userId |-> e.userId, level |-> e.level, song_id |-> sid,
     artist_id |-> aid, sessionId |-> e.sessionId, location |-> e.location,
     userAgent |-> e.userAgent, year |-> e.year, month |-> e.month]

\* how='inner': the rows one left row gives, one per matching right row.
InnerJoinRows(e, ctx) ==
    LET hits == SelectSeq(ctx, LAMBDA c : JoinCondition(e, c))
    IN [k \in DOMAIN hits |->
            SongplayCols(e, hits[k].song_id, hits[k].artist_id)]

\* how='left': the rows one left row gives, one per matching right row, or
\* one with nulls on the right when none matches.
LeftJoinRows(e, ctx) ==
    LET hits == SelectSeq(ctx, LAMBDA c : JoinCondition(e, c))
    IN IF hits = <<>> THEN <<SongplayCols(e, NULL, NULL)>>
       ELSE [k \in DOMAIN hits |->
                SongplayCols(e, hits[k].song_id, hits[k].artist_id)]

\* songplays_table of process_log_data, lines 167-169
songplays_table(df, ctx) ==
    Flatten([i \in DOMAIN df |-> LeftJoinRows(Enrich(df[i]), ctx)])

\* The Python lambda of get_timestamp raises on a null ts (None / 1000.0).
UdfRaises(df) == \E i \in DOMAIN df : df[i].ts = NullTs

\* ------------------------------------------------------------------ driver

Tables == {"song", "artist", "user", "time", "songplay"}

Absent == [exists |-> FALSE, rows |-> <<>>, partitionBy |-> <<>>]

\* The order with process_log_data called before process_song_data.
StageOrderLogFirst ==
    <<"create_spark_session",
      "read_log_data", "write_users", "write_time", "read_parquet",
      "write_songplays",
      "read_song_data", "write_songs", "write_artists">>

\* The statements of main(), process_song_data and process_log_data that
\* touch the input or the output namespace, in program order.
StageOrder ==
    <<"create_spark_session",
      "read_song_data", "write_songs", "write_artists",
      "read_log_data", "write_users", "write_time", "read_parquet",
      "write_songplays">>

IndexOf(seq, x) == CHOOSE i \in DOMAIN seq : seq[i] = x

\* Where control goes when a statement returns.
After(stage) ==
    LET i == IndexOf(StageOrder, stage)
    IN IF i = Len(StageOrder) THEN "done" ELSE StageOrder[i + 1]

\* Control after a statement whose exception is swallowed.
ContinueOnFailure(stage) == After(stage)

\* Where control goes when a statement raises: nothing in etl.py catches an
\* exception, so the process ends.
OnFailure(stage) == "aborted"

Init ==
    /\ catalog \in {S \in SUBSET (DOMAIN SongFilePool) :
                        Cardinality(S) <= MaxSongFiles}
    /\ events \in {S \in SUBSET (DOMAIN LogFilePool) :
                        Cardinality(S) <= MaxLogFiles}
    /\ storage = [t \in Tables |-> Absent]
    /\ pc = StageOrder[1]
    /\ run = 1
    /\ cat_df = <<>>
    /\ log_df = <<>>
    /\ df1 = <<>>
    /\ df2 = <<>>
    /\ trace = <<>>
    /\ failure = "none"
    /\ outcomes = <<>>

\* One statement ends: normally (why = "none") or by raising.
Step(stage, why) ==
    /\ pc = stage
    /\ pc' = IF why = "none" THEN After(stage) ELSE OnFailure(stage)
    /\ trace' = Append(trace, [op |-> stage, ok |-> (why = "none")])
    /\ failure' = IF why = "none" THEN failure ELSE why
    /\ UNCHANGED <<catalog, events, run, outcomes>>

\* df.write.parquet(path, mode=None, partitionBy=...): mode None is the
\* writer's default, which refuses a path that exists; the job then runs
\* the plan (and the UDF in it), and the storage may fail the write.
WriteParquet(stage, table, rows, partitionBy, raises, ok) ==
    LET why == IF storage[table].exists THEN "path_exists"
               ELSE IF raises THEN "udf"
               ELSE IF ~ok THEN "storage"
               ELSE "none"
    IN /\ Step(stage, why)
       /\ storage' = IF why = "none"
                     THEN [storage EXCEPT ![table] =
                              [exists |-> TRUE, rows |-> rows,
                               partitionBy |-> partitionBy]]
                     ELSE storage

\* spark = create_spark_session()
CreateSparkSession ==
    /\ Step("create_spark_session", "none")
    /\ UNCHANGED <<storage, cat_df, log_df, df1, df2>>

\* df = spark.read.json(song_data, schema=create_song_schema()): a glob
\* that matches no file is an error of the reader.
ReadSongData ==
    \E ok \in BOOLEAN :
        LET why == IF Matching(SongFilePool, catalog, song_data) = {}
                   THEN "no_input"
                   ELSE IF ~ok THEN "read" ELSE "none"
        IN /\ Step("read_song_data", why)
           /\ cat_df' = IF why = "none"
                        THEN ReadJson(SongFilePool, catalog, song_data)
                        ELSE cat_df
           /\ UNCHANGED <<storage, log_df, df1, df2>>

\* songs_table.write.parquet("song.parquet", partitionBy=["year", "artist_id"])
WriteSongs ==
    \E ok \in BOOLEAN :
        /\ WriteParquet("write_songs", "song", songs_table(cat_df),
                        <<"year", "artist_id">>, FALSE, ok)
        /\ UNCHANGED <<cat_df, log_df, df1, df2>>

\* artists_table.write.parquet("artist.parquet")
WriteArtists ==
    \E ok \in BOOLEAN :
        /\ WriteParquet("write_artists", "artist", artists_table(cat_df),
                        <<>>, FALSE, ok)
        /\ UNCHANGED <<cat_df, log_df, df1, df2>>

\* df = spark.read.json(log_data, schema=create_log_schema())
\* df = df.filter(df.page == "NextSong")
ReadLogData ==
    \E ok \in BOOLEAN :
        LET why == IF Matching(LogFilePool, events, log_data) = {}
                   THEN "no_input"
                   ELSE IF ~ok THEN "read" ELSE "none"
        IN /\ Step("read_log_data", why)
           /\ log_df' = IF why = "none"
                        THEN NextSongFilter(ReadJson(LogFilePool, events, log_data))
                        ELSE log_df
           /\ UNCHANGED <<storage, cat_df, df1, df2>>

\* users_table.write.parquet("user.parquet")
WriteUsers ==
    \E ok \in BOOLEAN :
        /\ WriteParquet("write_users", "user", users_table(log_df),
                        <<>>, FALSE, ok)
        /\ UNCHANGED <<cat_df, log_df, df1, df2>>

\* time_table.write.parquet("time.parquet", partitionBy=["year", "month"]):
\* the withColumn calls before it are lazy and run in this job.
WriteTime ==
    \E ok \in BOOLEAN :
        /\ WriteParquet("write_time", "time",
                        IF UdfRaises(log_df) THEN <<>>
                        ELSE time_table([i \in DOMAIN log_df |-> Enrich(log_df[i])]),
                        <<"year", "month">>, UdfRaises(log_df), ok)
        /\ UNCHANGED <<cat_df, log_df, df1, df2>>

\* df1 = spark.read.parquet("song.parquet")
\* df2 = spark.read.parquet("artist.parquet"): a path that does not exist is
\* an error of the reader, and the reader may fail on what it finds there.
ReadParquet ==
    \E ok \in BOOLEAN :
        LET why == IF ~storage["song"].exists \/ ~storage["artist"].exists
                   THEN "no_input"
                   ELSE IF ~ok THEN "read" ELSE "none"
        IN /\ Step("read_parquet", why)
           /\ df1' = IF why = "none" THEN storage["song"].rows ELSE df1
           /\ df2' = IF why = "none" THEN storage["artist"].rows ELSE df2
           /\ UNCHANGED <<storage, cat_df, log_df>>

\* songplays_table.write.parquet("songplay.parquet", partitionBy=["year", "month"])
WriteSongplays ==
    \E ok \in BOOLEAN :
        /\ WriteParquet("write_songplays", "songplay",
                        IF UdfRaises(log_df) THEN <<>>
                        ELSE songplays_table(log_df, song_df(df1, df2)),
                        <<"year", "month">>, UdfRaises(log_df), ok)
        /\ UNCHANGED <<cat_df, log_df, df1, df2>>

\* The script is started again on the same input and output roots.
Rerun ==
    /\ pc \in {"done", "aborted"}
    /\ run < MaxRuns
    /\ run' = run + 1
    /\ outcomes' = Append(outcomes, pc)
    /\ pc' = StageOrder[1]
    /\ cat_df' = <<>>
    /\ log_df' = <<>>
    /\ df1' = <<>>
    /\ df2' = <<>>
    /\ trace' = <<>>
    /\ failure' = "none"
    /\ UNCHANGED <<catalog, events, storage>>

Next ==
    \/ CreateSparkSession
    \/ ReadSongData
    \/ WriteSongs
    \/ WriteArtists
    \/ ReadLogData
    \/ WriteUsers
    \/ WriteTime
    \/ ReadParquet
    \/ WriteSongplays
    \/ Rerun

Spec == Init /\ [][Next]_vars

\* ------------------------------------------------------------------ properties

\* The multiset of the rows of a dataframe.
BagOf(s) == [x \in Range(s) |-> Cardinality({i \in DOMAIN s : s[i] = x})]

\* A step of the current run that ended normally.
Did(op) == \E i \in DOMAIN trace : trace[i] = [op |-> op, ok |-> TRUE]

\* Every event record of every file present under the input root.
AllEvents == UNION {Range(LogFilePool[i].rows) : i \in events}

\* The play events the pipeline read.
PlaysRead ==
    SelectSeq(ReadJson(LogFilePool, events, log_data),
              LAMBDA e : e.page = "NextSong")

\* The pairs of the inner join of the persisted Song and Artist tables.
Context ==
    {<<s, a>> \in Range(storage["song"].rows) \X Range(storage["artist"].rows) :
        s.artist_id # NULL /\ s.artist_id = a.artist_id}

\* event.song == title, event.artist == artist_name, event.length == duration
Matched(e, c) ==
    /\ e.song # NULL /\ e.song = c[1].title
    /\ e.artist # NULL /\ e.artist = c[2].artist_name
    /\ e.length # NULL /\ e.length = c[1].duration

\* The columns a SongPlay row takes unchanged from its event.
SameEvent(row, e) ==
    /\ row.ts = e.ts /\ row.userId = e.userId /\ row.sessionId = e.sessionId
    /\ row.level = e.level /\ row.location = e.location
    /\ row.userAgent = e.userAgent

SongPlay == storage["songplay"].rows

\* C1: once SongPlay is written it has exactly as many rows as play events
\* were read, also when several context rows match one event.
C1_RowPerPlay ==
    storage["songplay"].exists => Len(SongPlay) = Len(PlaysRead)

\* C2: a play event that matches no row of the Song-join-Artist context
\* still has its SongPlay rows, as many as there are such events with the
\* same event columns, each with null song_id and null artist_id.
C2_UnmatchedKeptWithNulls ==
    storage["songplay"].exists =>
        \A e \in Range(PlaysRead) :
            (~\E c \in Context : Matched(e, c)) =>
                Cardinality({i \in DOMAIN SongPlay :
                                /\ SameEvent(SongPlay[i], e)
                                /\ SongPlay[i].song_id = NULL
                                /\ SongPlay[i].artist_id = NULL})
                = Cardinality({i \in DOMAIN PlaysRead :
                                /\ \A f \in {"ts", "userId", "sessionId", "level",
                                             "location", "userAgent"} :
                                       PlaysRead[i][f] = e[f]
                                /\ ~\E c \in Context : Matched(PlaysRead[i], c)})

\* C2 witness: SongPlay is written, the context is not empty and some play
\* event matches none of its rows.
C2_Witness ==
    /\ storage["songplay"].exists
    /\ Context # {}
    /\ \E e \in Range(PlaysRead) : ~\E c \in Context : Matched(e, c)

ScenarioCatalog == <<CatRec("S1", "T1", "A1", 2000, "180.0", "AR1", "")>>

ScenarioEvents ==
    <<EvtRec("NextSong", "T1", "AR1", "180.0", "U1", "free", <<1000, 0>>, 5)>>

\* C3: for every play event and every context row the join condition pairs
\* it with, SongPlay has a row with the event's ts, userId and sessionId and
\* that context row's song_id and artist_id; the one-record scenario gives
\* exactly one row, (S1, A1, U1).
C3_MatchedCarriesIds ==
    storage["songplay"].exists =>
        /\ \A e \in Range(PlaysRead) : \A c \in Context :
                Matched(e, c) =>
                    \E i \in DOMAIN SongPlay :
                        /\ SameEvent(SongPlay[i], e)
                        /\ SongPlay[i].song_id = c[1].song_id
                        /\ SongPlay[i].artist_id = c[1].artist_id
        /\ (Did("write_songplays") /\ cat_df = ScenarioCatalog
                /\ PlaysRead = ScenarioEvents) =>
                /\ Len(SongPlay) = 1
                /\ SongPlay[1].song_id = "S1"
                /\ SongPlay[1].artist_id = "A1"
                /\ SongPlay[1].userId = "U1"

\* C3 witness: the scenario has run to the end.
C3_Witness ==
    /\ Did("write_songplays")
    /\ cat_df = ScenarioCatalog
    /\ PlaysRead = ScenarioEvents
    /\ \E e \in Range(PlaysRead) : \E c \in Context : Matched(e, c)

NoTwoRowsEqual(rows) ==
    \A i, j \in DOMAIN rows : rows[i] = rows[j] => i = j

\* C4: the written Song table has no null song_id, the written Artist table
\* no null artist_id, and neither holds two fully equal rows.
C4_KeysNotNullNoDuplicates ==
    /\ storage["song"].exists =>
        /\ \A r \in Range(storage["song"].rows) : r.song_id # NULL
        /\ NoTwoRowsEqual(storage["song"].rows)
    /\ storage["artist"].exists =>
        /\ \A r \in Range(storage["artist"].rows) : r.artist_id # NULL
        /\ NoTwoRowsEqual(storage["artist"].rows)

\* C4 witness: both tables are written from a catalog that has two equal
\* records, a record with a null song_id and one with a null artist_id.
C4_Witness ==
    /\ Did("write_artists")
    /\ \E i, j \in DOMAIN cat_df : i # j /\ cat_df[i] = cat_df[j]
    /\ \E i \in DOMAIN cat_df : cat_df[i].song_id = NULL
    /\ \E i \in DOMAIN cat_df : cat_df[i].artist_id = NULL

IsPlay(e) == e.page = "NextSong"

\* C5: every row of User, Time and SongPlay comes from an event whose page
\* is "NextSong", and an event with another page whose columns no play
\* event shares has no row in any of the three.
C5_OnlyNextSong ==
    LET plays  == {e \in AllEvents : IsPlay(e)}
        others == {e \in AllEvents : ~IsPlay(e)}
        user   == storage["user"].rows
        time   == storage["time"].rows
    IN /\ \A r \in Range(user) : \E e \in plays : UserCols(e) = r
       /\ \A r \in Range(time) : \E e \in plays : e.ts = r.ts
       /\ \A r \in Range(SongPlay) : \E e \in plays : SameEvent(r, e)
       /\ \A o \in others :
            /\ (\A e \in plays : UserCols(e) # UserCols(o)) =>
                    \A r \in Range(user) : r # UserCols(o)
            /\ (\A e \in plays : e.ts # o.ts) =>
                    \A r \in Range(time) : r.ts # o.ts
            /\ (\A e \in plays : e.ts # o.ts) =>
                    \A r \in Range(SongPlay) : ~SameEvent(r, o)

\* C5 witness: the three tables are written from event files that hold a
\* play event and an event of another page.
C5_Witness ==
    /\ Did("write_songplays")
    /\ storage["user"].rows # <<>>
    /\ \E e \in Range(ReadJson(LogFilePool, events, log_data)) : ~IsPlay(e)

\* C6: a second run against the same output root, after a run that
\* succeeded, succeeds too (unless the storage or a read fails under it)
\* and leaves every table written.
C6_RerunOverwrites ==
    (/\ outcomes # <<>>
     /\ outcomes[Len(outcomes)] = "done"
     /\ pc \in {"done", "aborted"}
     /\ failure \notin {"storage", "read"}) =>
        /\ pc = "done"
        /\ \A t \in Tables : storage[t].exists

\* C7: within a run, User and Time are written, and the persisted Song and
\* Artist tables are read, only after the writes of Song and Artist have
\* both completed; SongPlay is written after the other four tables and no
\* table is written after it.
C7_StageOrder ==
    LET DoneBefore(op, i) ==
            \E j \in 1..(i - 1) : trace[j] = [op |-> op, ok |-> TRUE]
        Writes == {"write_songs", "write_artists", "write_users",
                   "write_time", "write_songplays"}
    IN \A i \in DOMAIN trace :
        /\ trace[i].op \in {"read_log_data", "write_users", "write_time",
                            "read_parquet", "write_songplays"} =>
                DoneBefore("write_songs", i) /\ DoneBefore("write_artists", i)
        /\ trace[i].op \in {"read_parquet", "write_songplays"} =>
                DoneBefore("write_users", i) /\ DoneBefore("write_time", i)
        /\ trace[i].op = "write_songplays" =>
                /\ DoneBefore("read_parquet", i)
                /\ \A j \in DOMAIN trace : j > i => trace[j].op \notin Writes

\* C7 witness: a run in which every stage has run.
C7_Witness == pc = "done" /\ Did("write_songplays") /\ Did("read_parquet")

WriteOf ==
    [song |-> "write_songs", artist |-> "write_artists", user |-> "write_users",
     time |-> "write_time", songplay |-> "write_songplays"]

SongRoot == "song-data"

LogRoot == "log_data"

IsRecordFile(path) == path[Len(path)] \in JsonNames

\* The rows of the files of `pool` with the indexes `ids`.
RowsOf(pool, ids) ==
    LET seq == SetToSeq(ids)
    IN Flatten([k \in DOMAIN seq |-> pool[seq[k]].rows])

C10_TimePerPlay ==
    LET time == storage["time"].rows
    IN /\ storage["time"].exists =>
            BagOf([i \in DOMAIN time |-> time[i].ts])
                = BagOf([i \in DOMAIN PlaysRead |-> PlaysRead[i].ts])
       /\ storage["songplay"].exists =>
            \A r \in Range(SongPlay) :
                /\ \E t \in Range(time) : t.ts = r.ts
                /\ \A t \in Range(time) :
                        t.ts = r.ts => t.year = r.year /\ t.month = r.month

\* C10 witness: Time and SongPlay are written from play events two of which
\* share a ts.
C10_Witness ==
    /\ Did("write_songplays")
    /\ \E i, j \in DOMAIN storage["time"].rows :
            i # j /\ storage["time"].rows[i] = storage["time"].rows[j]

====
